---- MODULE Spec2Model ----
(***************************************************************************)
(* Request schemas of nucypher-porter (porter/schema.py) and the           *)
(* TreasureMap field (porter/fields/treasuremap.py).                       *)
(*                                                                         *)
(* A request is a raw mapping (JSON payload, or the mapping assembled from *)
(* CLI options) loaded by a marshmallow Schema subclass:                   *)
(*   1. every load field, in declaration order, is looked up and           *)
(*      deserialized; marshmallow stores a ValidationError per field and   *)
(*      goes on, any other exception leaves load at once;                  *)
(*   2. keys that are no load field are handled by Meta.unknown;           *)
(*   3. the validates_schema hooks run (skipped when step 1 stored an      *)
(*      error), in the order marshmallow resolves them: it walks dir(cls), *)
(*      which Python sorts by attribute name;                              *)
(*   4. stored errors go to handle_error as one ValidationError.           *)
(***************************************************************************)
EXTENDS Integers, Sequences, FiniteSets, TLC

VARIABLES schema, params, fieldError, surface, raw, result, pc

vars == <<schema, params, fieldError, surface, raw, result, pc>>

\* ------------------------------------------------------------------ bounds

MaxQuantity == 3
MaxIncludeLen == 3
MaxExcludeLen == 2

\* ------------------------------------------------------------- input values

\* Well-formed checksum addresses, and one string that is none.
Addresses == {"A", "B", "C"}
BadAddress == "0xbad"

SeqsUpTo(S, n) == UNION {[1..k -> S] : k \in 0..n}

\* A JSON number or a JSON string.
QuantityRaw == {[int |-> n] : n \in 0..MaxQuantity} \cup {[str |-> "abc"]}

IncludeRaw == SeqsUpTo(Addresses, MaxIncludeLen) \cup {<<BadAddress>>, <<"A", BadAddress>>}
ExcludeRaw == SeqsUpTo(Addresses, MaxExcludeLen) \cup {<<BadAddress>>, <<"B", BadAddress>>}

\* base64 of a serialized treasure map, base64 of other bytes, a string that
\* is not base64, and a JSON number.
TreasureMapRaw == {[str |-> "bWFw"], [str |-> "anVuaw=="], [str |-> "%%%"], [int |-> 7]}
KitsRaw == {<<>>, <<"kit">>, <<"kit", "kit2">>, <<"badkit">>}
KeyRaw == {"02ab", "zz"}
ContextRaw == {"object", "array"}
ExtraRaw == {"junk"}

Opt(S) == {[present |-> FALSE]} \cup {[present |-> TRUE, v |-> x] : x \in S}

AliceParams ==
    [quantity : Opt(QuantityRaw), exclude_ursulas : Opt(ExcludeRaw),
     include_ursulas : Opt(IncludeRaw), ursulas : Opt(ExtraRaw), note : Opt(ExtraRaw)]

BobParams ==
    [treasure_map : Opt(TreasureMapRaw), retrieval_kits : Opt(KitsRaw),
     alice_verifying_key : Opt(KeyRaw), bob_encrypting_key : Opt(KeyRaw),
     bob_verifying_key : Opt(KeyRaw), context : Opt(ContextRaw),
     retrieval_results : Opt(ExtraRaw), note : Opt(ExtraRaw)]

Schemas == {"AliceGetUrsulas", "BobRetrieveCFrags"}

Params(s) == IF s = "AliceGetUrsulas" THEN AliceParams ELSE BobParams

\* ------------------------------------------------------------ the schemas

\* The load fields (not dump_only), in declaration order.
LoadFields(s) ==
    IF s = "AliceGetUrsulas"
    THEN <<"quantity", "exclude_ursulas", "include_ursulas">>
    ELSE <<"treasure_map", "retrieval_kits", "alice_verifying_key",
           "bob_encrypting_key", "bob_verifying_key", "context">>

DumpOnlyFields(s) ==
    IF s = "AliceGetUrsulas" THEN {"ursulas"} ELSE {"retrieval_results"}

Range(q) == {q[i] : i \in 1..Len(q)}

LoadFieldNames(s) == Range(LoadFields(s))

DeclaredFields(s) == LoadFieldNames(s) \cup DumpOnlyFields(s)

Required(s, f) ==
    IF s = "AliceGetUrsulas"
    THEN f = "quantity"
    ELSE f \in {"treasure_map", "retrieval_kits", "alice_verifying_key",
                "bob_encrypting_key", "bob_verifying_key"}

RequiredFields(s) == {f \in LoadFieldNames(s) : Required(s, f)}

\* Meta.unknown
UnknownRaise == "RAISE"
UnknownExclude == "EXCLUDE"
Unknown == "INCLUDE"

\* ------------------------------------------------------------- exceptions

\* An exception: its class, where it was raised (a field, a hook or
\* handle_error), str(e) as the parts the f-string joins, and the set the
\* message formats (field names of an aggregate, the common entries).
Exc(type, origin, msg, detail) ==
    [type |-> type, origin |-> origin, msg |-> msg, detail |-> detail]

NoExc == Exc("none", "none", <<>>, {})

\* porter.fields.exceptions: InvalidInputData and InvalidArgumentCombo are
\* imported beside marshmallow, and handle_error turns marshmallow's
\* ValidationError into an InvalidInputData: they are no ValidationError.
IsValidationError(type) == type = "ValidationError"

\* `except Exception`: every class an input can make the decoders raise.
ExceptionClasses ==
    {"ValidationError", "InvalidInputData", "InvalidArgumentCombo",
     "ValueError", "TypeError", "KeyError"}

Ok(v) == [ok |-> TRUE, value |-> v, exc |-> NoExc]
Raise(e) == [ok |-> FALSE, value |-> <<>>, exc |-> e]

\* ---------------------------------------------------------- field decoders

\* What the field types of the other modules (porter.specifications.fields,
\* porter.fields.key, porter.fields.retrieve) raise when they reject a value:
\* marshmallow's ValidationError or the package's InvalidInputData. Both are
\* kept (the variable fieldError).
FieldErrorClasses == {"ValidationError", "InvalidInputData"}

\* Base64BytesRepresentation._deserialize: b64decode of the raw string.
Base64Bytes_deserialize(name, value, fe) ==
    IF "int" \in DOMAIN value
    THEN Raise(Exc("TypeError", name,
                   <<"argument should be a bytes-like object or ASCII string">>, {}))
    ELSE IF value.str = "bWFw" THEN Ok("map")
    ELSE IF value.str = "anVuaw==" THEN Ok("junk")
    ELSE Raise(Exc(fe, name, <<"Could not parse ", name, ": ", "Incorrect padding">>, {}))

\* nucypher_core.TreasureMap.from_bytes
TreasureMapClass_from_bytes(bytes) ==
    IF bytes = "map"
    THEN Ok([obj |-> "TreasureMap", bytes |-> bytes])
    ELSE Raise(Exc("ValueError", "from_bytes", <<"Failed to deserialize a TreasureMap">>, {}))

\* The try body of TreasureMap._deserialize.
TreasureMap_try(name, value, fe) ==
    LET b == Base64Bytes_deserialize(name, value, fe)
    IN  IF b.ok THEN TreasureMapClass_from_bytes(b.value) ELSE b

TreasureMap_wrap(name, e) ==
    Exc("InvalidInputData", name,
        <<"Could not convert input for ", name, " to a TreasureMap: ">> \o e.msg, {})

\* As TreasureMap._deserialize with `except ValueError` for `except Exception`.
TreasureMap_deserialize_ValueErrorOnly(name, value, fe) ==
    LET r == TreasureMap_try(name, value, fe)
    IN  IF r.ok \/ r.exc.type # "ValueError" THEN r
        ELSE Raise(TreasureMap_wrap(name, r.exc))

TreasureMap_deserialize(name, value, fe) ==
    LET r == TreasureMap_try(name, value, fe)
    IN  IF r.ok THEN r
        ELSE IF r.exc.type \in ExceptionClasses
        THEN Raise(TreasureMap_wrap(name, r.exc))
        ELSE r

\* base_fields.PositiveInteger: marshmallow's Integer, then the sign check.
PositiveInteger_deserialize(name, value, fe) ==
    IF "str" \in DOMAIN value
    THEN Raise(Exc("ValidationError", name, <<"Not a valid integer.">>, {}))
    ELSE IF value.int > 0 THEN Ok(value.int)
    ELSE Raise(Exc(fe, name, <<name, " must be a positive integer.">>, {}))

\* base_fields.StringList over an inner field: each item decoded in order.
StringList_deserialize(name, value, valid, required, fe) ==
    IF value = <<>> /\ required
    THEN Raise(Exc(fe, name, <<name, " must not be empty.">>, {}))
    ELSE IF \E i \in 1..Len(value) : value[i] \notin valid
    THEN Raise(Exc(fe, name, <<"Could not convert input for ", name>>, {}))
    ELSE Ok(value)

\* fields.Key: a hexadecimal string decoded to a key.
Key_deserialize(name, value, fe) ==
    IF value = "02ab" THEN Ok([obj |-> "Key", hex |-> value])
    ELSE Raise(Exc(fe, name, <<"Could not convert input for ", name, " to a valid key">>, {}))

\* base_fields.JSON(expected_type=dict)
JSON_deserialize(name, value, fe) ==
    IF value = "object" THEN Ok([obj |-> "dict"])
    ELSE Raise(Exc(fe, name, <<"Unexpected object type for ", name>>, {}))

\* Field.deserialize of load field f of schema s.
FieldDeserialize(s, f, value, fe) ==
    CASE f = "quantity" -> PositiveInteger_deserialize(f, value, fe)
      [] f \in {"exclude_ursulas", "include_ursulas"} ->
            StringList_deserialize(f, value, Addresses, Required(s, f), fe)
      [] f = "treasure_map" -> TreasureMap_deserialize(f, value, fe)
      [] f = "retrieval_kits" ->
            StringList_deserialize(f, value, {"kit", "kit2"}, Required(s, f), fe)
      [] f \in {"alice_verifying_key", "bob_encrypting_key", "bob_verifying_key"} ->
            Key_deserialize(f, value, fe)
      [] OTHER -> JSON_deserialize(f, value, fe)

\* --------------------------------------------------- the cross-field rules

RaiseHook(e) == [raised |-> TRUE, exc |-> e]
Pass == [raised |-> FALSE, exc |-> NoExc]

Get(data, k, default) == IF k \in DOMAIN data THEN data[k] ELSE default

\* As the quantity rule with >= for >.
check_valid_quantity_and_include_ursulas_ge(data) ==
    LET ursulas_to_include == Get(data, "include_ursulas", <<>>)
    IN  IF Len(ursulas_to_include) = 0 THEN Pass
        ELSE IF "quantity" \notin DOMAIN data
        THEN RaiseHook(Exc("KeyError", "check_valid_quantity_and_include_ursulas",
                           <<"quantity">>, {}))
        ELSE IF Len(ursulas_to_include) >= data["quantity"]
        THEN RaiseHook(Exc("InvalidArgumentCombo", "check_valid_quantity_and_include_ursulas",
                           <<"Ursulas to include is greater than quantity requested">>, {}))
        ELSE Pass

\* data.get('include_ursulas') is None or an empty list: the condition is
\* false before data['quantity'] is read.
check_valid_quantity_and_include_ursulas(data) ==
    LET ursulas_to_include == Get(data, "include_ursulas", <<>>)
    IN  IF Len(ursulas_to_include) = 0 THEN Pass
        ELSE IF "quantity" \notin DOMAIN data
        THEN RaiseHook(Exc("KeyError", "check_valid_quantity_and_include_ursulas",
                           <<"quantity">>, {}))
        ELSE IF Len(ursulas_to_include) > data["quantity"]
        THEN RaiseHook(Exc("InvalidArgumentCombo", "check_valid_quantity_and_include_ursulas",
                           <<"Ursulas to include is greater than quantity requested">>, {}))
        ELSE Pass

ExclusiveCombo(common_ursulas) ==
    RaiseHook(Exc("InvalidArgumentCombo", "check_include_and_exclude_are_mutually_exclusive",
                  <<"Ursulas to include and exclude are not mutually exclusive; ",
                    "common entries ">>, common_ursulas))

\* As the disjointness rule with the set difference for the intersection.
check_include_and_exclude_difference(data) ==
    LET ursulas_to_include == Get(data, "include_ursulas", <<>>)
        ursulas_to_exclude == Get(data, "exclude_ursulas", <<>>)
        common_ursulas == Range(ursulas_to_include) \ Range(ursulas_to_exclude)
    IN  IF Cardinality(common_ursulas) > 0 THEN ExclusiveCombo(common_ursulas) ELSE Pass

check_include_and_exclude_are_mutually_exclusive(data) ==
    LET ursulas_to_include == Get(data, "include_ursulas", <<>>)
        ursulas_to_exclude == Get(data, "exclude_ursulas", <<>>)
        common_ursulas == Range(ursulas_to_include) \cap Range(ursulas_to_exclude)
    IN  IF Cardinality(common_ursulas) > 0 THEN ExclusiveCombo(common_ursulas) ELSE Pass

\* The validates_schema methods as the class body declares them.
DeclaredHooks(s) ==
    IF s = "AliceGetUrsulas"
    THEN <<"check_valid_quantity_and_include_ursulas",
           "check_include_and_exclude_are_mutually_exclusive">>
    ELSE <<>>

\* The place in the alphabet of the first letter after the prefix the two
\* method names share ("check_"): v of valid, i of include.
NameKey(hook) == IF hook = "check_valid_quantity_and_include_ursulas" THEN 22 ELSE 9

\* The hooks by name: marshmallow collects the decorated methods over
\* dir(cls), which is sorted, and runs them in that order.
SortByName(hooks) ==
    IF Len(hooks) = 2 /\ NameKey(hooks[2]) < NameKey(hooks[1])
    THEN <<hooks[2], hooks[1]>>
    ELSE hooks

\* As HookOrder were the hooks run as declared.
HookOrderDeclared(s) == DeclaredHooks(s)

HookOrder(s) == SortByName(DeclaredHooks(s))

\* validates_schema's skip_on_field_errors, left at its default.
SkipOnFieldErrorsOff == FALSE
SkipOnFieldErrors == TRUE

RunHook(hook, data) ==
    IF hook = "check_valid_quantity_and_include_ursulas"
    THEN check_valid_quantity_and_include_ursulas(data)
    ELSE check_include_and_exclude_are_mutually_exclusive(data)

\* ------------------------------------------------------------- Schema.load

MissingMsg == <<"Missing data for required field.">>

\* The loop over the load fields: ret collects the decoded values, errors the
\* stored ValidationErrors, decoded the fields whose decoder ran; an
\* exception that is no ValidationError ends the loop (raised).
RECURSIVE DeserializeFields(_, _, _, _, _)
DeserializeFields(s, data, fe, i, acc) ==
    IF i > Len(LoadFields(s)) THEN acc
    ELSE LET f == LoadFields(s)[i] IN
         IF f \notin DOMAIN data
         THEN IF Required(s, f)
              THEN DeserializeFields(s, data, fe, i + 1,
                       [acc EXCEPT !.errors = @ @@ (f :> MissingMsg)])
              ELSE DeserializeFields(s, data, fe, i + 1, acc)
         ELSE LET d == FieldDeserialize(s, f, data[f], fe)
                  seen == [acc EXCEPT !.decoded = Append(@, f)]
              IN  IF d.ok
                  THEN DeserializeFields(s, data, fe, i + 1,
                           [seen EXCEPT !.ret = @ @@ (f :> d.value)])
                  ELSE IF IsValidationError(d.exc.type)
                  THEN DeserializeFields(s, data, fe, i + 1,
                           [seen EXCEPT !.errors = @ @@ (f :> d.exc.msg)])
                  ELSE [seen EXCEPT !.raised = TRUE, !.exc = d.exc]

UnknownKeys(s, data) == DOMAIN data \ LoadFieldNames(s)

\* Meta.unknown applied to the keys that are no load field.
ApplyUnknown(s, data, acc) ==
    CASE Unknown = "INCLUDE" ->
            [acc EXCEPT !.ret = @ @@ [k \in UnknownKeys(s, data) |-> data[k]]]
      [] Unknown = "RAISE" ->
            [acc EXCEPT !.errors = @ @@ [k \in UnknownKeys(s, data) |-> <<"Unknown field.">>]]
      [] OTHER -> acc

\* The validates_schema hooks, in order; a hook's exception that is no
\* ValidationError leaves load at once.
RECURSIVE RunHooks(_, _, _)
RunHooks(hooks, i, acc) ==
    IF i > Len(hooks) THEN acc
    ELSE IF acc.fieldErrors /\ SkipOnFieldErrors THEN RunHooks(hooks, i + 1, acc)
    ELSE LET h == RunHook(hooks[i], acc.ret)
             ran == [acc EXCEPT !.evaluated = Append(@, hooks[i])]
         IN  IF ~h.raised THEN RunHooks(hooks, i + 1, ran)
             ELSE IF IsValidationError(h.exc.type)
             THEN RunHooks(hooks, i + 1, [ran EXCEPT !.errors = @ @@ ("_schema" :> h.exc.msg)])
             ELSE [ran EXCEPT !.raised = TRUE, !.exc = h.exc]

\* As handle_error without its raise: marshmallow then raises its own error.
handle_error_pass(errors) ==
    Exc("ValidationError", "load", <<"ValidationError">>, DOMAIN errors)

\* BaseSchema.handle_error: error is the ValidationError holding the stored
\* errors, field name -> messages.
handle_error(errors) ==
    Exc("InvalidInputData", "handle_error", <<"ValidationError">>, DOMAIN errors)

Failed(e, acc) ==
    [ok |-> FALSE, value |-> <<>>, exc |-> e, errors |-> acc.errors,
     evaluated |-> acc.evaluated, decoded |-> acc.decoded]

\* Schema.load of the raw mapping data.
Load(s, data, fe) ==
    LET start == [ret |-> <<>>, errors |-> <<>>, decoded |-> <<>>, evaluated |-> <<>>,
                  raised |-> FALSE, exc |-> NoExc, fieldErrors |-> FALSE]
        fields == DeserializeFields(s, data, fe, 1, start)
    IN  IF fields.raised THEN Failed(fields.exc, fields)
        ELSE LET known == ApplyUnknown(s, data, fields)
                 hooked == RunHooks(HookOrder(s), 1,
                               [known EXCEPT !.fieldErrors = DOMAIN known.errors # {}])
             IN  IF hooked.raised THEN Failed(hooked.exc, hooked)
                 ELSE IF DOMAIN hooked.errors # {}
                 THEN Failed(handle_error(hooked.errors), hooked)
                 ELSE [ok |-> TRUE, value |-> hooked.ret, exc |-> NoExc,
                       errors |-> <<>>, evaluated |-> hooked.evaluated,
                       decoded |-> hooked.decoded]

NoResult ==
    [ok |-> FALSE, value |-> <<>>, exc |-> NoExc, errors |-> <<>>,
     evaluated |-> <<>>, decoded |-> <<>>]

\* ------------------------------------------------------------ the surfaces

Given(p) == {k \in DOMAIN p : p[k].present}

\* The JSON payload: the keys the caller sent.
JsonPayload(p) == [k \in Given(p) |-> p[k].v]

\* click.option(..., default=[]) of a field; the other options declare none.
HasCliDefault(s, f) == f \in {"exclude_ursulas", "include_ursulas", "retrieval_kits"}
CliDefault(s, f) == <<>>

\* click.option(..., required=True)
CliRequired(s, f) == Required(s, f)

\* The mapping assembled from the options: an option that was given, or its
\* declared default.
CliMapping(s, p) ==
    [k \in {f \in LoadFieldNames(s) : p[f].present \/ HasCliDefault(s, f)} |->
        IF p[k].present THEN p[k].v ELSE CliDefault(s, k)]

\* The command line carries options only, and click itself refuses a
\* command line that lacks a required option.
CliInvocable(s, p) ==
    /\ Given(p) \subseteq LoadFieldNames(s)
    /\ \A f \in LoadFieldNames(s) : CliRequired(s, f) => p[f].present

\* -------------------------------------------------------------- behaviour

Init ==
    /\ schema \in Schemas
    /\ params \in Params(schema)
    /\ fieldError \in FieldErrorClasses
    /\ surface = "none"
    /\ raw = <<>>
    /\ result = NoResult
    /\ pc = "ready"

\* An API request: the payload is loaded.
ApiRequest ==
    /\ pc = "ready"
    /\ surface' = "json"
    /\ raw' = JsonPayload(params)
    /\ result' = Load(schema, JsonPayload(params), fieldError)
    /\ pc' = "done"
    /\ UNCHANGED <<schema, params, fieldError>>

\* A CLI invocation: the option values are loaded.
CliRequest ==
    /\ pc = "ready"
    /\ CliInvocable(schema, params)
    /\ surface' = "cli"
    /\ raw' = CliMapping(schema, params)
    /\ result' = Load(schema, CliMapping(schema, params), fieldError)
    /\ pc' = "done"
    /\ UNCHANGED <<schema, params, fieldError>>

Next == ApiRequest \/ CliRequest

Spec == Init /\ [][Next]_vars

\* ------------------------------------------------------------ properties

Done == pc = "done"

Alice == schema = "AliceGetUrsulas"
Bob == schema = "BobRetrieveCFrags"

QuantityHook == "check_valid_quantity_and_include_ursulas"
ExclusiveHook == "check_include_and_exclude_are_mutually_exclusive"

\* The present load fields whose own decode fails, and the absent required ones.
Undecodable(s, data, fe) ==
    {f \in LoadFieldNames(s) \cap DOMAIN data : ~FieldDeserialize(s, f, data[f], fe).ok}
MissingRequired(s, data) == RequiredFields(s) \ DOMAIN data

AllFieldsDecode(s, data, fe) ==
    Undecodable(s, data, fe) = {} /\ MissingRequired(s, data) = {}

RawInclude == Get(raw, "include_ursulas", <<>>)
RawExclude == Get(raw, "exclude_ursulas", <<>>)
Common == Range(RawInclude) \cap Range(RawExclude)

Contains(t, s) ==
    \E i \in 1..(Len(t) - Len(s) + 1) : \A j \in 1..Len(s) : t[i + j - 1] = s[j]

Restrict(f, S) == [k \in S |-> f[k]]

\* C1: a load of AliceGetUrsulas whose fields all decode succeeds only if the
\* include and exclude lists (absent counts as empty) share no element; if
\* they share one, it fails with InvalidArgumentCombo naming exactly the
\* common elements.
C1_CommonEntriesRejected ==
    (Done /\ Alice /\ AllFieldsDecode(schema, raw, fieldError)) =>
        /\ result.ok => Common = {}
        /\ Common # {} =>
              /\ ~result.ok
              /\ result.exc.type = "InvalidArgumentCombo"
              /\ result.exc.detail = Common

C1_Witness ==
    /\ Done /\ Alice /\ AllFieldsDecode(schema, raw, fieldError)
    /\ RawInclude = <<"A", "B">> /\ RawExclude = <<"B", "C">>
    /\ result.exc.type = "InvalidArgumentCombo" /\ result.exc.detail = {"B"}

\* C2: with all fields decoding and disjoint lists, load fails (with
\* InvalidArgumentCombo) exactly when include_ursulas is present and longer
\* than quantity; every successful load has len(include_ursulas) <= quantity.
C2_IncludeWithinQuantity ==
    /\ (Done /\ Alice /\ AllFieldsDecode(schema, raw, fieldError) /\ Common = {}) =>
          /\ ~result.ok <=>
                ("include_ursulas" \in DOMAIN raw /\ Len(RawInclude) > raw["quantity"].int)
          /\ ~result.ok =>
                result.exc.type = "InvalidArgumentCombo" /\ result.exc.origin = QuantityHook
    /\ (Done /\ Alice /\ result.ok) =>
          Len(Get(result.value, "include_ursulas", <<>>)) <= result.value["quantity"]

C2_Witness ==
    /\ Done /\ Alice /\ "quantity" \in DOMAIN raw /\ raw["quantity"] = [int |-> 2]
    /\ RawInclude = <<"A", "B", "C">> /\ Common = {}
    /\ result.exc.type = "InvalidArgumentCombo" /\ result.exc.origin = QuantityHook

\* C3: when a non-empty set of required fields is absent and every present
\* field is valid, load fails with the aggregate error raised by
\* handle_error, naming exactly the absent required fields, and returns
\* nothing.
C3_MissingRequiredNamed ==
    (Done /\ MissingRequired(schema, raw) # {} /\ Undecodable(schema, raw, fieldError) = {}) =>
        /\ ~result.ok
        /\ result.exc.type = "InvalidInputData"
        /\ result.exc.origin = "handle_error"
        /\ result.exc.detail = MissingRequired(schema, raw)
        /\ result.value = <<>>

C3_Witness ==
    /\ Done /\ Bob /\ Undecodable(schema, raw, fieldError) = {}
    /\ MissingRequired(schema, raw) = {"retrieval_kits", "bob_verifying_key"}
    /\ result.exc.origin = "handle_error"
    /\ result.exc.detail = {"retrieval_kits", "bob_verifying_key"}

\* C4: a BobRetrieveCFrags load in which treasure_map fails to decode and
\* another field is missing or undecodable does not stop at treasure_map: it
\* fails with one aggregate error holding an entry for every failing field,
\* treasure_map included.
C4_TreasureMapErrorCollected ==
    (/\ Done /\ Bob
     /\ "treasure_map" \in Undecodable(schema, raw, fieldError)
     /\ (Undecodable(schema, raw, fieldError) \cup MissingRequired(schema, raw))
            # {"treasure_map"}) =>
        /\ ~result.ok
        /\ result.exc.origin = "handle_error"
        /\ (Undecodable(schema, raw, fieldError) \cup MissingRequired(schema, raw))
               \subseteq result.exc.detail

\* C5: in a load of AliceGetUrsulas with a field missing-required or failing
\* its decode, no cross-field rule is evaluated: the load ends with the
\* per-field error, never InvalidArgumentCombo nor a failed lookup of
\* 'quantity'.
C5_RulesAfterFields ==
    (Done /\ Alice /\ ~AllFieldsDecode(schema, raw, fieldError)) =>
        /\ result.evaluated = <<>>
        /\ ~result.ok
        /\ result.exc.type = "InvalidInputData"
        /\ result.exc.origin \in LoadFieldNames(schema) \cup {"handle_error"}

C5_Witness ==
    /\ Done /\ Alice /\ "quantity" \notin DOMAIN raw
    /\ RawInclude = <<"A", "B">> /\ RawExclude = <<"B">>
    /\ result.exc.origin = "handle_error" /\ result.exc.detail = {"quantity"}

BothRulesViolated ==
    /\ Done /\ Alice /\ AllFieldsDecode(schema, raw, fieldError)
    /\ Len(RawInclude) > raw["quantity"].int
    /\ Common # {}

\* C6 as claimed: an input violating both rules fails with the error of the
\* first declared rule (include count over quantity) and the disjointness
\* rule is not evaluated.
C6_DeclarationOrder ==
    BothRulesViolated =>
        /\ result.exc.type = "InvalidArgumentCombo"
        /\ result.exc.origin = QuantityHook
        /\ result.evaluated = <<QuantityHook>>

\* C6 amended: the rules abort on the first failure and run in the order of
\* their method names, the disjointness rule first: an input violating both
\* fails with the disjointness error naming the common entries, and the
\* quantity rule is not evaluated.
C6_FirstRuleByNameAborts ==
    BothRulesViolated =>
        /\ ~result.ok
        /\ result.exc.type = "InvalidArgumentCombo"
        /\ result.exc.origin = ExclusiveHook
        /\ result.exc.detail = Common
        /\ result.evaluated = <<ExclusiveHook>>

C6_Witness ==
    /\ BothRulesViolated
    /\ raw["quantity"] = [int |-> 1] /\ RawInclude = <<"A", "B">> /\ RawExclude = <<"B">>
    /\ result.exc.origin = ExclusiveHook /\ result.evaluated = <<ExclusiveHook>>

Undeclared == DOMAIN raw \ DeclaredFields(schema)

\* C7: keys that are no declared field never change the outcome: the load
\* succeeds or fails as it does without them, with the same error and the
\* same decoded fields, and they are passed through without being decoded.
C7_UnknownKeysHarmless ==
    (Done /\ Undeclared # {}) =>
        LET base == Load(schema, Restrict(raw, DOMAIN raw \ Undeclared), fieldError)
        IN  /\ result.ok = base.ok
            /\ result.exc = base.exc
            /\ result.decoded = base.decoded
            /\ Range(result.decoded) \cap Undeclared = {}
            /\ result.ok =>
                  /\ \A k \in DOMAIN base.value : result.value[k] = base.value[k]
                  /\ \A k \in Undeclared : result.value[k] = raw[k]

C7_Witness ==
    /\ Done /\ Alice /\ "note" \in DOMAIN raw /\ "include_ursulas" \in DOMAIN raw
    /\ result.ok /\ result.value["note"] = "junk"

\* C8 as claimed: a successful load holds only declared input fields that
\* were present: no undeclared key, no output-only field name.
C8_OnlyDeclaredInputKeys ==
    (Done /\ result.ok) =>
        DOMAIN result.value \subseteq (LoadFieldNames(schema) \cap DOMAIN raw)

\* C8 amended: a successful load holds exactly the keys of the raw input:
\* the declared input fields decoded, every other key (undeclared, or the
\* name of an output-only field) passed through with its raw value.
C8_ExactlyInputKeys ==
    (Done /\ result.ok) =>
        /\ DOMAIN result.value = DOMAIN raw
        /\ \A k \in DOMAIN raw \ LoadFieldNames(schema) : result.value[k] = raw[k]

C8_Witness ==
    /\ Done /\ result.ok
    /\ DumpOnlyFields(schema) \subseteq DOMAIN result.value
    /\ "note" \in DOMAIN result.value

\* C9: decoding treasure_map either yields the object the parser makes of
\* the base64-decoded bytes or fails with InvalidInputData whose message
\* holds the field name and the message of the exception caught; no other
\* exception class leaves the load.
C9_TreasureMapErrorsWrapped ==
    (Done /\ Bob /\ "treasure_map" \in DOMAIN raw) =>
        LET t == TreasureMap_try("treasure_map", raw["treasure_map"], fieldError)
        IN  /\ result.exc.type \in {"none", "InvalidInputData"}
            /\ t.ok => /\ result.exc.origin # "treasure_map"
                       /\ result.ok => result.value["treasure_map"] = t.value
            /\ ~t.ok => /\ ~result.ok
                        /\ result.exc.type = "InvalidInputData"
                        /\ result.exc.origin = "treasure_map"
                        /\ Contains(result.exc.msg, <<"treasure_map">>)
                        /\ Contains(result.exc.msg, t.exc.msg)

C9_Witness ==
    /\ Done /\ Bob /\ "treasure_map" \in DOMAIN raw
    /\ raw["treasure_map"] = [int |-> 7]
    /\ result.exc.type = "InvalidInputData" /\ result.exc.origin = "treasure_map"

\* C10: the same logical parameters loaded from the CLI options and from a
\* JSON payload give the same outcome: equal loaded results with the same
\* keys, or the same error.
C10_SurfacesAgree ==
    (Done /\ surface = "cli") =>
        LET json == Load(schema, JsonPayload(params), fieldError)
        IN  /\ result.ok = json.ok
            /\ result.value = json.value
            /\ result.exc = json.exc

====
